---- MODULE Spec2Model ----
(***************************************************************************)
(* CrosswordCreator (generate.py): crossword fill as a CSP.                *)
(* solve() = enforce_node_consistency(); ac3(); backtrack(dict()).         *)
(* Words are sequences of letters; overlap offsets are 0-based as in the   *)
(* source, so character i of a word w is w[i + 1].                         *)
(***************************************************************************)
EXTENDS Integers, Sequences, FiniteSets

VARIABLES
    crossword,    \* self.crossword: structure, words, variables, overlaps
    domains,      \* self.domains : variable -> set of words
    pc,           \* position inside solve()
    arcs,         \* the worklist of ac3 (a Python list, popped from the end)
    ac3ret,       \* what ac3 returned: "none" (not yet), "True", "False"
    lastRevise,   \* the last call of revise: arguments, domains before, return value
    lastConsistent, \* the last call of consistent: argument and return value
    assignment,   \* the shared assignment dict of backtrack
    stack,        \* the active frames of backtrack, innermost last
    result        \* what solve() returned

vars == <<crossword, domains, pc, arcs, ac3ret, lastRevise, lastConsistent,
          assignment, stack, result>>

(***************************************************************************)
(* Bounds and inputs                                                       *)
(***************************************************************************)
\* largest word pool tried
MaxPool == 3

\* every word that may appear in a word pool
Vocabulary ==
    { <<"A", "A">>, <<"A", "B">>, <<"B", "A">>,
      <<"A", "A", "A">>, <<"A", "A", "B">>, <<"A", "B", "A">>,
      <<"B", "A", "B">>, <<"B", "B", "B">> }

GridRows == 0..2

GridCols == 0..2

Cell(i, j) == <<i, j>>

Row(i, js) == {Cell(i, j) : j \in js}

Col(j, is) == {Cell(i, j) : i \in is}

\* the grids tried: no slot, one slot, two parallel slots, a crossing pair,
\* an L of a 2-slot and a 3-slot, and two chains of three slots
Structures ==
    { {},
      Row(0, 0..2),
      Row(0, 0..2) \cup Row(2, 0..2),
      Row(1, 0..2) \cup Col(1, 0..2),
      Row(0, 0..1) \cup Col(0, 0..2),
      Row(0, 0..1) \cup Col(0, 0..2) \cup Row(2, 0..2),
      Row(0, 1..2) \cup Col(1, 0..2) \cup Row(2, 0..1) }

WordPools == {P \in SUBSET Vocabulary : Cardinality(P) <= MaxPool}

(***************************************************************************)
(* The puzzle model (crossword.py): variables, overlaps, neighbors         *)
(***************************************************************************)
\* length of the run of filled cells of the grid S from (i, j) down / across
RECURSIVE RunDown(_, _, _)
RunDown(S, i, j) ==
    IF i \in GridRows /\ Cell(i, j) \in S THEN 1 + RunDown(S, i + 1, j) ELSE 0

RECURSIVE RunAcross(_, _, _)
RunAcross(S, i, j) ==
    IF j \in GridCols /\ Cell(i, j) \in S THEN 1 + RunAcross(S, i, j + 1) ELSE 0

Variable(i, j, direction, length) ==
    [i |-> i, j |-> j, direction |-> direction, length |-> length]

\* the slots of the grid S: its maximal runs of more than one cell
VariablesOf(S) ==
    {Variable(c[1], c[2], "down", RunDown(S, c[1], c[2])) :
        c \in {c \in GridRows \X GridCols :
            /\ c \in S /\ Cell(c[1] - 1, c[2]) \notin S
            /\ RunDown(S, c[1], c[2]) > 1}}
    \cup
    {Variable(c[1], c[2], "across", RunAcross(S, c[1], c[2])) :
        c \in {c \in GridRows \X GridCols :
            /\ c \in S /\ Cell(c[1], c[2] - 1) \notin S
            /\ RunAcross(S, c[1], c[2]) > 1}}

\* the k-th cell (0-based) of a variable
CellAt(v, k) ==
    IF v.direction = "down" THEN Cell(v.i + k, v.j) ELSE Cell(v.i, v.j + k)

Cells(v) == {CellAt(v, k) : k \in 0..(v.length - 1)}

None == <<>>

\* the overlap of two slots: None, or the offsets (i, j) of the shared cell
OverlapOf(x, y) ==
    IF Cells(x) \cap Cells(y) = {} THEN None
    ELSE CHOOSE o \in (0..(x.length - 1)) \X (0..(y.length - 1)) :
            CellAt(x, o[1]) = CellAt(y, o[2])

\* the Crossword object built from a grid and a word pool
Crossword(S, P) ==
    LET V == VariablesOf(S) IN
    [structure |-> S,
     words |-> P,
     variables |-> V,
     overlaps |-> [a \in {a \in V \X V : a[1] # a[2]} |-> OverlapOf(a[1], a[2])]]

variables == crossword.variables

\* crossword.overlaps[x, y]
overlaps(x, y) == crossword.overlaps[<<x, y>>]

\* crossword.neighbors(var)
neighbors(var) == {v \in variables : v # var /\ overlaps(v, var) # None}

(***************************************************************************)
(* Iteration orders of Python sets                                         *)
(***************************************************************************)
\* the orders in which iterating over the set S may yield its elements
Perms(S) ==
    {s \in [1..Cardinality(S) -> S] :
        \A a, b \in 1..Cardinality(S) : a # b => s[a] # s[b]}

Range(s) == {s[k] : k \in 1..Len(s)}

(***************************************************************************)
(* enforce_node_consistency                                                *)
(***************************************************************************)
\* a mutation of KeepsWord: the length test is <= instead of equality
KeepsWordAtLeast(var, word) == var.length <= Len(word)

\* a mutation of KeepsWord: only the words that are too long are removed
KeepsWordAtMost(var, word) == Len(word) <= var.length

\* line 102: a word stays unless len(word) != var.length
KeepsWord(var, word) == Len(word) = var.length

EnforceNodeConsistency ==
    /\ pc = "solve"
    /\ domains' = [var \in DOMAIN domains |->
                      {word \in domains[var] : KeepsWord(var, word)}]
    /\ pc' = "ac3"
    /\ UNCHANGED <<crossword, lastConsistent, arcs, ac3ret, lastRevise, assignment,
                   stack, result>>

(***************************************************************************)
(* revise                                                                  *)
(***************************************************************************)
\* character at 0-based offset k of a word
CharAt(word, k) == word[k + 1]

\* a mutation of HasSupport: the comparison is != instead of ==
HasSupportMismatch(doms, x, y, x_value) ==
    LET overlap == overlaps(x, y) IN
    \E y_value \in doms[y] :
        CharAt(x_value, overlap[1]) # CharAt(y_value, overlap[2])

\* a mutation of HasSupport: every value of y must agree, not just one
HasSupportAll(doms, x, y, x_value) ==
    LET overlap == overlaps(x, y) IN
    \A y_value \in doms[y] :
        CharAt(x_value, overlap[1]) = CharAt(y_value, overlap[2])

\* lines 127-133: the flag `check` for one x_value
HasSupport(doms, x, y, x_value) ==
    LET overlap == overlaps(x, y) IN
    \E y_value \in doms[y] :
        CharAt(x_value, overlap[1]) = CharAt(y_value, overlap[2])

\* a mutation of Revise: the removal is applied to y's domain
ReviseWrongDomain(doms, x, y) ==
    IF overlaps(x, y) = None THEN doms
    ELSE [doms EXCEPT ![y] =
            {y_value \in doms[y] : HasSupport(doms, y, x, y_value)}]

\* a mutation of Revise: x's domain becomes the supporting values of y
ReviseTakesPartner(doms, x, y) ==
    IF overlaps(x, y) = None THEN doms
    ELSE [doms EXCEPT ![x] =
            {y_value \in doms[y] : HasSupport(doms, y, x, y_value)}]

\* the domains after revise(x, y) called on the domains doms
Revise(doms, x, y) ==
    IF overlaps(x, y) = None THEN doms
    ELSE [doms EXCEPT ![x] =
            {x_value \in doms[x] : HasSupport(doms, x, y, x_value)}]

\* the value revise(x, y) returns: `revision` is set at line 114 and never
\* assigned again before the returns at lines 119 and 136
ReviseReturn(doms, x, y) == FALSE

\* line 131 raises IndexError for some order of iterating the two domains:
\* x_value[i] is evaluated once y's domain yields a value, y_value[j] once a
\* y_value is met before the match of an x_value. Taken as raising then.
ReviseRaises(doms, x, y) ==
    /\ overlaps(x, y) # None
    /\ doms[x] # {}
    /\ doms[y] # {}
    /\ \/ \E x_value \in doms[x] : Len(x_value) <= overlaps(x, y)[1]
       \/ \E y_value \in doms[y] : Len(y_value) <= overlaps(x, y)[2]

NoVariable == Variable(-1, -1, "none", 0)

NoRevise == [called |-> FALSE, x |-> NoVariable, y |-> NoVariable,
             pre |-> [v \in {} |-> {}], ret |-> FALSE]

ReviseRecord(x, y) ==
    [called |-> TRUE, x |-> x, y |-> y, pre |-> domains,
     ret |-> ReviseReturn(domains, x, y)]

\* revise(x, y) called directly on node-consistent domains
ReviseCall ==
    /\ pc = "ac3"
    /\ \E x \in variables, y \in variables :
        /\ x # y
        /\ IF ReviseRaises(domains, x, y)
           THEN /\ pc' = "error"
                /\ UNCHANGED <<domains, lastRevise>>
           ELSE /\ domains' = Revise(domains, x, y)
                /\ lastRevise' = ReviseRecord(x, y)
                /\ UNCHANGED pc
    /\ UNCHANGED <<crossword, lastConsistent, arcs, ac3ret, assignment, stack, result>>

(***************************************************************************)
(* ac3                                                                     *)
(***************************************************************************)
RECURSIVE AppendNew(_, _)
\* lines 153-157: append each arc of `new` that is not yet in the list
AppendNew(list, new) ==
    IF new = <<>> THEN list
    ELSE AppendNew(IF Head(new) \in Range(list) THEN list
                   ELSE Append(list, Head(new)),
                   Tail(new))

RECURSIVE InitialArcs(_, _, _)
\* lines 149-157: the list after the first k variables of the iteration vo,
\* the neighbors of var being iterated in the order no[var]
InitialArcs(vo, no, k) ==
    IF k = 0 THEN <<>>
    ELSE LET var == vo[k] IN
         AppendNew(InitialArcs(vo, no, k - 1),
                   [m \in 1..Len(no[var]) |-> <<var, no[var][m]>>])

NeighborOrders ==
    {no \in [variables -> UNION {Perms(neighbors(v)) : v \in variables}] :
        \A v \in variables : no[v] \in Perms(neighbors(v))}

\* ac3(arcs=None) entered from solve(): build the list of all arcs
Ac3Init ==
    /\ pc = "ac3"
    /\ \E vo \in Perms(variables), no \in NeighborOrders :
        arcs' = InitialArcs(vo, no, Len(vo))
    /\ pc' = "ac3loop"
    /\ UNCHANGED <<crossword, lastConsistent, domains, ac3ret, lastRevise, assignment,
                   stack, result>>

\* one iteration of the while loop, lines 159-175
Ac3Step ==
    /\ pc = "ac3loop"
    /\ arcs # <<>>
    /\ LET x == arcs[Len(arcs)][1]
           y == arcs[Len(arcs)][2]
           popped == SubSeq(arcs, 1, Len(arcs) - 1)
           revised == ReviseReturn(domains, x, y)
           revisedDomains == Revise(domains, x, y)
       IN IF ReviseRaises(domains, x, y)
          THEN /\ pc' = "error"
               /\ arcs' = popped
               /\ UNCHANGED <<domains, lastRevise, ac3ret>>
          ELSE
          /\ domains' = revisedDomains
          /\ lastRevise' = ReviseRecord(x, y)
          /\ IF ~revised
             THEN /\ arcs' = popped
                  /\ UNCHANGED <<pc, ac3ret>>
             ELSE IF revisedDomains[x] = {}
             THEN /\ arcs' = popped
                  /\ ac3ret' = "False"
                  /\ pc' = "backtrack"
             ELSE /\ \E no \in Perms(neighbors(x) \ {y}) :
                        arcs' = popped \o [m \in 1..Len(no) |-> <<no[m], x>>]
                  /\ UNCHANGED <<pc, ac3ret>>
    /\ UNCHANGED <<crossword, lastConsistent, assignment, stack, result>>

\* the worklist is empty: line 176
Ac3Return ==
    /\ pc = "ac3loop"
    /\ arcs = <<>>
    /\ ac3ret' = "True"
    /\ pc' = "backtrack"
    /\ UNCHANGED <<crossword, lastConsistent, domains, arcs, lastRevise, assignment,
                   stack, result>>

(***************************************************************************)
(* assignment_complete, consistent                                         *)
(***************************************************************************)
EmptyAssignment == [v \in {} |-> <<>>]

\* assignment.update({var: value}) on a copy
Update(a, var, value) ==
    [v \in (DOMAIN a) \cup {var} |-> IF v = var THEN value ELSE a[v]]

\* a mutation of Pop: nothing is removed
PopNothing(a, var) == a

\* assignment.pop(var)
Pop(a, var) == [v \in (DOMAIN a) \ {var} |-> a[v]]

\* a mutation of AssignmentComplete: the empty assignment is never complete
AssignmentCompleteNeverEmpty(a) ==
    /\ a # EmptyAssignment
    /\ Cardinality(variables) = Cardinality(DOMAIN a)

\* a mutation of AssignmentComplete: the comparison is off by one
AssignmentCompleteOffByOne(a) ==
    Cardinality(variables) <= Cardinality(DOMAIN a) + 1

\* lines 183-186
AssignmentComplete(a) == Cardinality(variables) = Cardinality(DOMAIN a)

\* lines 194-199
AllUnique(a) ==
    \A word1 \in DOMAIN a : \A word2 \in DOMAIN a :
        word1 # word2 => a[word1] # a[word2]

\* lines 202-204
LengthsMatch(a) == \A word \in DOMAIN a : word.length = Len(a[word])

\* lines 207-214
OverlapsAgree(a) ==
    \A var \in DOMAIN a : \A var_neighbor \in neighbors(var) :
        var_neighbor \in DOMAIN a =>
            LET overlap == overlaps(var, var_neighbor) IN
            CharAt(a[var], overlap[1]) = CharAt(a[var_neighbor], overlap[2])

\* a mutation of Consistent: the overlap loop is missing
ConsistentNoOverlaps(a) == AllUnique(a) /\ LengthsMatch(a)

\* a mutation of Consistent: the uniqueness loop is missing
ConsistentNoUnique(a) == LengthsMatch(a) /\ OverlapsAgree(a)

\* consistent(assignment): the three checks in the order of the code
Consistent(a) == AllUnique(a) /\ LengthsMatch(a) /\ OverlapsAgree(a)

NoConsistent == [called |-> FALSE, arg |-> EmptyAssignment, ret |-> FALSE]

ConsistentRecord(a) == [called |-> TRUE, arg |-> a, ret |-> Consistent(a)]

\* consistent(assignment) called directly; it only reads its argument
ConsistentCall ==
    /\ pc = "solve"
    /\ ~lastConsistent.called
    /\ lastConsistent' = ConsistentRecord(assignment)
    /\ UNCHANGED <<crossword, domains, pc, arcs, ac3ret, lastRevise,
                   assignment, stack, result>>

(***************************************************************************)
(* order_domain_values                                                     *)
(***************************************************************************)
\* lines 238-250: what one neighbor adds to n for one value
RuledOutIn(var, var_neighbor, value) ==
    LET overlap == overlaps(var, var_neighbor) IN
    Cardinality({neighbor_value \in domains[var_neighbor] :
        \/ value = neighbor_value
        \/ /\ overlap # None
           /\ CharAt(value, overlap[1]) # CharAt(neighbor_value, overlap[2])})

RECURSIVE SumRuledOut(_, _, _)
SumRuledOut(var, value, ns) ==
    IF ns = {} THEN 0
    ELSE LET var_neighbor == CHOOSE n \in ns : TRUE IN
         RuledOutIn(var, var_neighbor, value)
             + SumRuledOut(var, value, ns \ {var_neighbor})

\* lines 231-251: order_dict[value]
RuledOut(var, a, value) ==
    SumRuledOut(var, value, neighbors(var) \ DOMAIN a)

RECURSIVE InsertByCount(_, _, _, _)
\* put value behind every element of the sorted list whose count is not larger
InsertByCount(sorted, var, a, value) ==
    IF sorted = <<>> THEN <<value>>
    ELSE IF RuledOut(var, a, Head(sorted)) <= RuledOut(var, a, value)
         THEN <<Head(sorted)>> \o InsertByCount(Tail(sorted), var, a, value)
         ELSE <<value>> \o sorted

RECURSIVE SortedByCount(_, _, _, _)
\* line 255: sorted() is stable, ties keep the order of the iteration
SortedByCount(it, k, var, a) ==
    IF k = 0 THEN <<>>
    ELSE InsertByCount(SortedByCount(it, k - 1, var, a), var, a, it[k])

\* line 249 raises IndexError: every pair of a value and a different value
\* of an unassigned neighbor is indexed at the overlap
OrderDomainValuesRaises(var, a) ==
    \E var_neighbor \in neighbors(var) \ DOMAIN a :
        \E value \in domains[var] : \E neighbor_value \in domains[var_neighbor] :
            /\ value # neighbor_value
            /\ \/ Len(value) <= overlaps(var, var_neighbor)[1]
               \/ Len(neighbor_value) <= overlaps(var, var_neighbor)[2]

\* a mutation of OrderDomainValues: the list is not sorted
OrderDomainValuesUnsorted(var, a, it) == it

\* order_domain_values(var, assignment), the domain being iterated in order it
OrderDomainValues(var, a, it) == SortedByCount(it, Len(it), var, a)

(***************************************************************************)
(* select_unassigned_variable                                              *)
(***************************************************************************)
RECURSIVE MinVar(_, _, _)
\* lines 279-284: min_var after the loop ran over it[k..]
MinVar(it, k, min_var) ==
    IF k > Len(it) THEN min_var
    ELSE LET var == it[k]
             reset == IF Cardinality(domains[var]) < Cardinality(domains[min_var[1]])
                      THEN <<var>> ELSE min_var
             added == IF Cardinality(domains[var]) = Cardinality(domains[reset[1]])
                      THEN Append(reset, var) ELSE reset
         IN MinVar(it, k + 1, added)

RECURSIVE MaxDegreeVarLess(_, _, _)
\* a mutation of MaxDegreeVar: the degree comparison is reversed
MaxDegreeVarLess(min_var, k, max_degree_var) ==
    IF k > Len(min_var) THEN max_degree_var
    ELSE MaxDegreeVarLess(min_var, k + 1,
            IF Cardinality(neighbors(min_var[k])) < Cardinality(neighbors(max_degree_var))
            THEN min_var[k] ELSE max_degree_var)

RECURSIVE MaxDegreeVar(_, _, _)
\* lines 287-292: max_degree_var after the loop ran over min_var[k..]
MaxDegreeVar(min_var, k, max_degree_var) ==
    IF k > Len(min_var) THEN max_degree_var
    ELSE MaxDegreeVar(min_var, k + 1,
            IF Cardinality(neighbors(min_var[k])) > Cardinality(neighbors(max_degree_var))
            THEN min_var[k] ELSE max_degree_var)

\* line 277: next(iter(unassigned)) raises StopIteration on the empty set
SelectUnassignedVariableRaises(a) == variables \ DOMAIN a = {}

\* select_unassigned_variable(assignment), `unassigned` being iterated in order it
SelectUnassignedVariable(it) ==
    LET min_var == MinVar(it, 1, <<it[1]>>) IN
    MaxDegreeVar(min_var, 1, min_var[1])

(***************************************************************************)
(* backtrack                                                               *)
(***************************************************************************)
NoResult == [returned |-> FALSE, some |-> FALSE, value |-> EmptyAssignment]

ReturnNone == [returned |-> TRUE, some |-> FALSE, value |-> EmptyAssignment]

ReturnAssignment(a) == [returned |-> TRUE, some |-> TRUE, value |-> a]

Top == stack[Len(stack)]

\* backtrack(assignment) is entered: lines 304-309
BacktrackCall ==
    /\ pc = "backtrack"
    /\ IF AssignmentComplete(assignment)
       THEN /\ result' = ReturnAssignment(assignment)
            /\ pc' = "done"
            /\ stack' = <<>>
       ELSE IF SelectUnassignedVariableRaises(assignment)
       THEN /\ pc' = "error"
            /\ UNCHANGED <<stack, result>>
       ELSE /\ \E vit \in Perms(variables \ DOMAIN assignment) :
                LET var == SelectUnassignedVariable(vit) IN
                IF OrderDomainValuesRaises(var, assignment)
                THEN /\ pc' = "error"
                     /\ UNCHANGED stack
                ELSE /\ \E dit \in Perms(domains[var]) :
                        stack' = Append(stack,
                            [var |-> var,
                             values |-> OrderDomainValues(var, assignment, dit),
                             entry |-> assignment])
                     /\ pc' = "loop"
            /\ UNCHANGED result
    /\ UNCHANGED <<crossword, lastConsistent, domains, arcs, ac3ret, lastRevise, assignment>>

\* a mutation of BacktrackTry: committing a value also narrows the domain
BacktrackTryNarrows ==
    /\ pc = "loop"
    /\ Top.values # <<>>
    /\ LET var == Top.var
           value == Head(Top.values)
           assi_copy == Update(assignment, var, value)
       IN IF Consistent(assi_copy)
          THEN /\ assignment' = Update(assignment, var, value)
               /\ domains' = [domains EXCEPT ![var] = {value}]
               /\ pc' = "backtrack"
               /\ UNCHANGED stack
          ELSE /\ stack' = [stack EXCEPT ![Len(stack)].values = Tail(@)]
               /\ UNCHANGED <<assignment, pc, domains>>
    /\ lastConsistent' = ConsistentRecord(Update(assignment, Top.var, Head(Top.values)))
    /\ UNCHANGED <<crossword, arcs, ac3ret, lastRevise, result>>

\* one iteration of the for loop up to the recursive call: lines 309-315
BacktrackTry ==
    /\ pc = "loop"
    /\ Top.values # <<>>
    /\ LET var == Top.var
           value == Head(Top.values)
           assi_copy == Update(assignment, var, value)
       IN IF Consistent(assi_copy)
          THEN /\ assignment' = Update(assignment, var, value)
               /\ pc' = "backtrack"
               /\ UNCHANGED stack
          ELSE /\ stack' = [stack EXCEPT ![Len(stack)].values = Tail(@)]
               /\ UNCHANGED <<assignment, pc>>
    /\ lastConsistent' = ConsistentRecord(Update(assignment, Top.var, Head(Top.values)))
    /\ UNCHANGED <<crossword, domains, arcs, ac3ret, lastRevise, result>>

\* the for loop is exhausted, line 320; the caller resumes at lines 316-319
BacktrackReturnNone ==
    /\ pc = "loop"
    /\ Top.values = <<>>
    /\ LET callers == SubSeq(stack, 1, Len(stack) - 1) IN
       IF callers = <<>>
       THEN /\ result' = ReturnNone
            /\ pc' = "done"
            /\ stack' = callers
            /\ UNCHANGED assignment
       ELSE /\ assignment' = Pop(assignment, callers[Len(callers)].var)
            /\ stack' = [callers EXCEPT ![Len(callers)].values = Tail(@)]
            /\ UNCHANGED <<pc, result>>
    /\ UNCHANGED <<crossword, lastConsistent, domains, arcs, ac3ret, lastRevise>>

(***************************************************************************)
(* Specifications                                                          *)
(***************************************************************************)
\* __init__, lines 12-16: every domain is a copy of the word pool
Init ==
    /\ \E S \in Structures, P \in WordPools : crossword = Crossword(S, P)
    /\ domains = [var \in variables |-> crossword.words]
    /\ pc = "solve"
    /\ arcs = <<>>
    /\ ac3ret = "none"
    /\ lastRevise = NoRevise
    /\ lastConsistent = NoConsistent
    /\ assignment = EmptyAssignment
    /\ stack = <<>>
    /\ result = NoResult

\* solve()
Next ==
    \/ EnforceNodeConsistency
    \/ Ac3Init
    \/ Ac3Step
    \/ Ac3Return
    \/ BacktrackCall
    \/ BacktrackTry
    \/ BacktrackReturnNone

Spec == Init /\ [][Next]_vars

\* a caller that enforces node consistency and then calls revise on pairs
NextRevise ==
    \/ EnforceNodeConsistency
    \/ ReviseCall

SpecRevise == Init /\ [][NextRevise]_vars

\* the assignments a caller may pass: any slots, any words of the pool
PartialAssignments ==
    UNION {[D -> crossword.words] : D \in SUBSET variables}

InitConsistent ==
    /\ \E S \in Structures, P \in WordPools : crossword = Crossword(S, P)
    /\ domains = [var \in variables |-> crossword.words]
    /\ pc = "solve"
    /\ arcs = <<>>
    /\ ac3ret = "none"
    /\ lastRevise = NoRevise
    /\ lastConsistent = NoConsistent
    /\ assignment \in PartialAssignments
    /\ stack = <<>>
    /\ result = NoResult

\* a caller that calls consistent on an assignment of its own
NextConsistent == ConsistentCall

SpecConsistent == InitConsistent /\ [][NextConsistent]_vars

\* order_domain_values(var, a) called directly, on node-consistent domains,
\* with an assignment a of the caller that takes its words from the domains;
\* the call is recorded as the frame backtrack would enter
OrderDomainValuesCall ==
    /\ pc = "ac3"
    /\ stack = <<>>
    /\ \E var \in variables, a \in PartialAssignments :
        /\ \A v \in DOMAIN a : a[v] \in domains[v]
        /\ IF OrderDomainValuesRaises(var, a)
           THEN /\ pc' = "error"
                /\ UNCHANGED stack
           ELSE /\ \E dit \in Perms(domains[var]) :
                   stack' = Append(stack,
                       [var |-> var,
                        values |-> OrderDomainValues(var, a, dit),
                        entry |-> a])
                /\ UNCHANGED pc
    /\ UNCHANGED <<crossword, lastConsistent, domains, arcs, ac3ret,
                   lastRevise, assignment, result>>

\* a caller that calls order_domain_values after enforce_node_consistency
NextOrderDomainValues == EnforceNodeConsistency \/ OrderDomainValuesCall

SpecOrderDomainValues == Init /\ [][NextOrderDomainValues]_vars

(***************************************************************************)
(* Properties                                                              *)
(***************************************************************************)
\* a is a solution of the puzzle: complete, length-matching, agreeing on
\* every overlap, pairwise distinct
ValidSolution(a) ==
    /\ DOMAIN a = variables
    /\ \A v \in variables : Len(a[v]) = v.length
    /\ \A x \in variables : \A y \in variables :
        (x # y /\ overlaps(x, y) # None) =>
            a[x][overlaps(x, y)[1] + 1] = a[y][overlaps(x, y)[2] + 1]
    /\ \A x \in variables : \A y \in variables : x # y => a[x] # a[y]

SolutionExists == \E a \in [variables -> crossword.words] : ValidSolution(a)

\* the words of the pool that have the length of slot v
WordsOfLength(v) == {w \in crossword.words : Len(w) = v.length}

\* every word of x's domain has a partner in y's domain, for every arc (x, y)
ArcConsistent ==
    \A x \in variables : \A y \in variables :
        (x # y /\ overlaps(x, y) # None) =>
            \A wx \in domains[x] : \E wy \in domains[y] :
                wx[overlaps(x, y)[1] + 1] = wy[overlaps(x, y)[2] + 1]

\* the last call of revise took something out of x's domain
RevisePruned ==
    /\ lastRevise.called
    /\ domains[lastRevise.x] # lastRevise.pre[lastRevise.x]

\* C1: an assignment returned by solve() gives every slot a word of the
\* slot's length, agrees at every overlap and uses no word twice.
SolveReturnsValid ==
    (result.returned /\ result.some) => ValidSolution(result.value)

SolveReturnsValidWitness ==
    /\ result.returned /\ result.some
    /\ \E x \in variables : neighbors(x) # {}

\* C2: when the puzzle has a solution, solve() returns an assignment; it
\* returns None only when there is none.
SolveComplete == (result.returned /\ SolutionExists) => result.some

SolveCompleteWitness ==
    /\ result.returned /\ result.some
    /\ Cardinality(variables) = 3
    /\ \E v \in variables : domains[v] # WordsOfLength(v)

\* C3: once ac3() has returned True the domains are arc consistent, so that
\* no later revise(x, y) removes anything.
Ac3FixedPoint == ac3ret = "True" => ArcConsistent

\* C4: revise(x, y) returns True exactly when it removed a word from x's
\* domain, and False when the domain is unchanged.
ReviseReturnsChange ==
    lastRevise.called =>
        (lastRevise.ret <=> domains[lastRevise.x] # lastRevise.pre[lastRevise.x])

\* C5: ac3() returns True only with every domain non-empty, and returns
\* False as soon as a revise call has emptied x's domain.
Ac3ReportsEmptyDomain ==
    /\ ac3ret = "True" => \A v \in variables : domains[v] # {}
    /\ (RevisePruned /\ domains[lastRevise.x] = {}) => ac3ret = "False"

\* C6: with a slot whose length no word of the pool has, solve() returns None.
NoWordOfLengthGivesNone ==
    (result.returned /\ \E v \in variables : WordsOfLength(v) = {})
        => ~result.some

NoWordOfLengthGivesNoneWitness ==
    /\ result.returned
    /\ \E v \in variables : WordsOfLength(v) = {}
    /\ \E u \in variables : WordsOfLength(u) # {}

\* C7: right after enforce_node_consistency() every domain is exactly the
\* words of its previous content (the word pool) that have the slot's length.
NodeConsistencyExact ==
    pc = "ac3" => \A v \in variables : domains[v] = WordsOfLength(v)

NodeConsistencyExactWitness ==
    /\ pc = "ac3"
    /\ \E v \in variables : domains[v] # {} /\ domains[v] # crossword.words

\* C8: after revise(x, y) on overlapping slots, x's domain is exactly the
\* words of its previous domain that have a partner wy in y's domain with
\* wx[i] = wy[j].
ReviseKeepsSupported ==
    (lastRevise.called /\ overlaps(lastRevise.x, lastRevise.y) # None) =>
        LET x == lastRevise.x
            y == lastRevise.y
            i == overlaps(x, y)[1]
            j == overlaps(x, y)[2]
        IN domains[x] = {wx \in lastRevise.pre[x] :
                            \E wy \in lastRevise.pre[y] : wx[i + 1] = wy[j + 1]}

ReviseKeepsSupportedWitness ==
    /\ RevisePruned
    /\ domains[lastRevise.x] # {}

\* C9: revise(x, y) leaves the domain of y and of every slot other than x
\* as it was.
ReviseFrame ==
    lastRevise.called =>
        \A v \in variables : v # lastRevise.x => domains[v] = lastRevise.pre[v]

ReviseFrameWitness ==
    /\ RevisePruned
    /\ lastRevise.pre[lastRevise.y] # {}
    /\ Cardinality(variables) = 3

\* C10: during ac3() every step leaves each domain a subset of what it was.
Ac3Monotone ==
    [][(pc = "ac3" \/ pc = "ac3loop") =>
        (\A v \in variables : domains'[v] \subseteq domains[v])]_vars

Ac3MonotoneWitness ==
    /\ pc = "ac3loop"
    /\ RevisePruned

\* a satisfies the three rules on the slots it assigns: no word twice, every
\* word of its slot's length, every pair of assigned neighbors agreeing
PartialValid(a) ==
    /\ \A x \in DOMAIN a : \A y \in DOMAIN a : x # y => a[x] # a[y]
    /\ \A x \in DOMAIN a : Len(a[x]) = x.length
    /\ \A x \in DOMAIN a : \A y \in DOMAIN a :
        (x # y /\ overlaps(x, y) # None) =>
            a[x][overlaps(x, y)[1] + 1] = a[y][overlaps(x, y)[2] + 1]

\* C11: consistent(assignment) returns True exactly when the assigned words
\* are pairwise distinct, each has its slot's length and assigned neighbors
\* agree at their overlap; unassigned slots do not count, and the assignment
\* is the same after the call.
ConsistentIffValid ==
    lastConsistent.called =>
        /\ lastConsistent.ret <=> PartialValid(lastConsistent.arg)
        /\ assignment = lastConsistent.arg

ConsistentIffValidWitness ==
    /\ lastConsistent.called /\ lastConsistent.ret
    /\ Cardinality(variables) = 3
    /\ Cardinality(DOMAIN lastConsistent.arg) = 2
    /\ \E x \in DOMAIN lastConsistent.arg : \E y \in DOMAIN lastConsistent.arg :
        x # y /\ overlaps(x, y) # None

RECURSIVE Power(_, _)
Power(b, n) == IF n = 0 THEN 1 ELSE b * Power(b, n - 1)

RECURSIVE SumOver(_, _)
\* the sum of f[k] over the set ks
SumOver(f, ks) ==
    IF ks = {} THEN 0
    ELSE LET k == CHOOSE k \in ks : TRUE IN f[k] + SumOver(f, ks \ {k})

NumSlots == Cardinality(variables)

\* one more than the largest digit of SearchMeasure
Base == 2 * Cardinality(crossword.words) + 3

\* the search read as a number with one digit per recursion depth: a frame
\* counts its remaining values (and whether it is at the head of its loop),
\* a depth not yet entered counts as the largest digit
SearchMeasure ==
    SumOver([d \in 1..NumSlots |->
                Power(Base, NumSlots - d) *
                    IF d > Len(stack) THEN Base - 1
                    ELSE 2 * Len(stack[d].values)
                         + (IF d = Len(stack) /\ pc = "loop" THEN 1 ELSE 0)],
            1..NumSlots)

DomainSizes == SumOver([v \in variables |-> Cardinality(domains[v])], variables)

\* a natural number that every step of solve() decreases
Measure ==
    LET propagation == Power(Base, NumSlots) + 1 + Len(arcs)
                           + NumSlots * NumSlots * DomainSizes
    IN CASE pc = "solve" -> propagation + NumSlots * NumSlots + 2
         [] pc = "ac3" -> propagation + NumSlots * NumSlots + 1
         [] pc = "ac3loop" -> propagation
         [] pc = "backtrack" -> SearchMeasure + 1
         [] pc = "loop" -> SearchMeasure + 1
         [] OTHER -> 0

\* some step of solve() can be taken. backtrack() can always be entered:
\* each of its branches is defined for every assignment, and a finite set
\* has an iteration order.
CanStep ==
    \/ ENABLED EnforceNodeConsistency
    \/ ENABLED Ac3Init
    \/ ENABLED Ac3Step
    \/ ENABLED Ac3Return
    \/ pc = "backtrack"
    \/ ENABLED BacktrackTry
    \/ ENABLED BacktrackReturnNone

\* C12: solve() terminates, and it ends by returning (an assignment or
\* None): every step decreases a natural number, a step can be taken until
\* solve() has returned, and no step of node consistency, ac3 or backtrack
\* raises an error.
SolveTerminatesNormally ==
    /\ [][Measure' < Measure]_vars
    /\ [](Measure >= 0)
    /\ [](pc = "done" \/ CanStep)
    /\ [](pc = "done" => result.returned)
    /\ [](pc # "error")

SolveTerminatesNormallyWitness ==
    /\ pc = "done" /\ result.returned /\ ~result.some
    /\ Cardinality(variables) = 3
    /\ \A v \in variables : domains[v] # {}

\* C13: on a puzzle with no slot, solve() returns the empty assignment, and
\* backtrack() never selects a variable (no frame is entered), never tries
\* a value (consistent() is not called) and raises no error.
NoSlotsReturnsEmpty ==
    variables = {} =>
        /\ stack = <<>>
        /\ pc # "loop" /\ pc # "error"
        /\ ~lastConsistent.called
        /\ assignment = EmptyAssignment
        /\ result.returned =>
               (result.some /\ result.value = EmptyAssignment
                   /\ ValidSolution(result.value))

NoSlotsReturnsEmptyWitness ==
    /\ variables = {}
    /\ crossword.words # {}
    /\ pc = "done"
    /\ result.returned

\* the down slot and the across slot of the plus-shaped grid
PlusDown == Variable(0, 1, "down", 3)

PlusAcross == Variable(1, 0, "across", 3)

\* the plus-shaped grid with the word pool {AAA, ABA, BBB}
PlusPuzzle ==
    /\ crossword.structure = Row(1, 0..2) \cup Col(1, 0..2)
    /\ crossword.words = { <<"A", "A", "A">>, <<"A", "B", "A">>,
                           <<"B", "B", "B">> }

\* C14: on the plus-shaped grid (a length-3 down slot and a length-3 across
\* slot with overlap (1, 1)) and the pool {AAA, ABA, BBB}, both domains hold
\* all three words after node consistency, and solve() returns two distinct
\* words with the same middle letter.
PlusPuzzleSolved ==
    PlusPuzzle =>
        /\ variables = {PlusDown, PlusAcross}
        /\ overlaps(PlusDown, PlusAcross) = <<1, 1>>
        /\ pc = "ac3" => \A v \in variables : domains[v] = crossword.words
        /\ pc # "error"
        /\ pc = "done" =>
               /\ result.returned /\ result.some
               /\ DOMAIN result.value = variables
               /\ result.value[PlusDown] \in crossword.words
               /\ result.value[PlusAcross] \in crossword.words
               /\ result.value[PlusDown] # result.value[PlusAcross]
               /\ result.value[PlusDown][2] = result.value[PlusAcross][2]

PlusPuzzleSolvedWitness ==
    /\ PlusPuzzle
    /\ pc = "done"
    /\ result.some
    /\ result.value[PlusDown] = <<"B", "B", "B">>

\* C15: in ac3(), when revising the arc (x, y) has removed a word from x's
\* domain and left it non-empty, every arc (neighbor, x) with neighbor # y
\* is on the worklist again, to be revised before ac3() returns.
Ac3Requeues ==
    (pc = "ac3loop" /\ RevisePruned /\ domains[lastRevise.x] # {}) =>
        \A neighbor \in neighbors(lastRevise.x) \ {lastRevise.y} :
            <<neighbor, lastRevise.x>> \in Range(arcs)

\* the slots a call of backtrack with assignment a can choose from
Unassigned(a) == variables \ DOMAIN a

\* the unassigned slots with the fewest remaining values
SmallestDomains(a) ==
    {v \in Unassigned(a) :
        \A w \in Unassigned(a) :
            Cardinality(domains[v]) <= Cardinality(domains[w])}

\* C16: the slot chosen by select_unassigned_variable for an incomplete
\* assignment is unassigned, has a domain of minimal size among the
\* unassigned slots, and has the most neighbors among those of minimal size.
SelectsMinDomainMaxDegree ==
    \A d \in 1..Len(stack) :
        LET var == stack[d].var
            a == stack[d].entry
        IN /\ var \in Unassigned(a)
           /\ var \in SmallestDomains(a)
           /\ \A w \in SmallestDomains(a) :
                  Cardinality(neighbors(var)) >= Cardinality(neighbors(w))

SelectsMinDomainMaxDegreeWitness ==
    \E d \in 1..Len(stack) :
        LET var == stack[d].var
            a == stack[d].entry
        IN /\ SmallestDomains(a) # Unassigned(a)
           /\ domains[var] # {}
           /\ \E w \in SmallestDomains(a) :
                  Cardinality(neighbors(var)) > Cardinality(neighbors(w))

\* the number of pairs (unassigned neighbor n, word u of n's domain) that the
\* word v for slot var rules out: u is v itself or differs at the overlap
EliminationCount(var, a, v) ==
    Cardinality(
        {p \in (neighbors(var) \ DOMAIN a) \X crossword.words :
            /\ p[2] \in domains[p[1]]
            /\ \/ v = p[2]
               \/ v[overlaps(var, p[1])[1] + 1] # p[2][overlaps(var, p[1])[2] + 1]})

\* the list values holds each word of var's domain once, by ascending count
IsLeastConstrainingOrder(values, var, a) ==
    /\ Len(values) = Cardinality(domains[var])
    /\ Range(values) = domains[var]
    /\ \A k \in 1..Len(values) : \A l \in 1..Len(values) :
           k < l => EliminationCount(var, a, values[k])
                        <= EliminationCount(var, a, values[l])

\* C17: the list order_domain_values(var, assignment) returns, which is
\* stored in the frame entered for the call, holds each word of var's domain
\* exactly once, in non-decreasing order of the number of values it rules
\* out in the domains of the unassigned neighbors.
OrderDomainValuesSorted ==
    [][Len(stack') = Len(stack) + 1 =>
          IsLeastConstrainingOrder(stack'[Len(stack')].values,
                                   stack'[Len(stack')].var,
                                   stack'[Len(stack')].entry)]_vars

OrderDomainValuesSortedWitness ==
    /\ stack # <<>>
    /\ Len(Top.values) = Cardinality(domains[Top.var])
    /\ Len(Top.values) >= 2
    /\ EliminationCount(Top.var, Top.entry, Top.values[1])
           < EliminationCount(Top.var, Top.entry, Top.values[Len(Top.values)])
    /\ neighbors(Top.var) \cap DOMAIN Top.entry # {}
    /\ neighbors(Top.var) \ DOMAIN Top.entry # {}

\* C18: a call of backtrack that is at the head of its loop, and so one that
\* returns None, finds the shared assignment exactly as it was when the call
\* was entered; and the shared assignment never holds an extension that
\* consistent() rejects.
BacktrackUndoes ==
    /\ pc = "loop" => assignment = Top.entry
    /\ \A d \in 1..Len(stack) : stack[d].var \notin DOMAIN stack[d].entry
    /\ Consistent(assignment)
    /\ (lastConsistent.called /\ ~lastConsistent.ret) =>
           assignment # lastConsistent.arg

BacktrackUndoesWitness ==
    /\ pc = "loop"
    /\ Top.values = <<>>
    /\ Len(stack) >= 2
    /\ Cardinality(domains[Top.var]) >= 2
    /\ lastConsistent.called /\ ~lastConsistent.ret
    /\ assignment = Top.entry

\* C19: no step of the backtracking search changes a domain: from the first
\* call of backtrack until solve() returns, the domains stay as node
\* consistency and ac3 left them.
BacktrackKeepsDomains ==
    [][(pc = "backtrack" \/ pc = "loop") => domains' = domains]_vars

BacktrackKeepsDomainsWitness ==
    /\ pc = "done"
    /\ result.returned /\ result.some
    /\ Cardinality(variables) = 3
    /\ \E v \in variables : domains[v] # {result.value[v]}
    /\ \E v \in variables : domains[v] # WordsOfLength(v)

\* C20: pruning keeps every solution: for each valid complete assignment of
\* the puzzle, the word of each slot is in the slot's domain after
\* enforce_node_consistency and after each step of ac3, in whatever order
\* the arcs are processed.
PruningKeepsSolutions ==
    \A a \in [variables -> crossword.words] :
        ValidSolution(a) => \A v \in variables : a[v] \in domains[v]

PruningKeepsSolutionsWitness ==
    /\ pc = "ac3loop"
    /\ arcs = <<>>
    /\ RevisePruned
    /\ Cardinality(variables) = 3
    /\ SolutionExists

====
